---- MODULE Spec2Model ----
(***************************************************************************)
(* LuaSec 0.4.1, src/context.c: the SSL context object exposed to Lua.     *)
(*                                                                         *)
(* A context is a Lua userdata (t_context) holding a pointer to the        *)
(* engine's SSL_CTX and a mode byte.  The model keeps one userdata, the    *)
(* engine object it points to, and the outcome of the most recent Lua      *)
(* call.  Bit masks are sets of bit positions, so that C's | is \cup.       *)
(* C strings that are copied or measured are sequences of characters.      *)
(***************************************************************************)
EXTENDS Integers, Sequences, FiniteSets, TLC

VARIABLES
  ud,       \* the t_context userdata: [held, meta, context, mode]
  ssl,      \* the engine's SSL_CTX the userdata points to
  call,     \* the most recent Lua call: its name and its arguments
  ret,      \* what that call handed back: [vals, err]
  engArg,   \* the SSL_CTX* values that call passed to the engine
  hookLog,  \* passwd_cb invocations made during that call
  crashed   \* the process died on undefined behaviour

vars == <<ud, ssl, call, ret, engArg, hookLog, crashed>>

----------------------------------------------------------------------------
(* Bounds of the model.                                                     *)

\* longest token list handed to setverify / setoptions / setsessioncachemode
MaxTokens == 2
\* largest buffer the engine hands to the password hook
MaxBuf == 3
\* most password-hook invocations the engine makes during one key load
MaxCbCalls == 2
\* largest cache size handed to setcachesize
MaxLong == 2

----------------------------------------------------------------------------
(* Lua values and the C API calls the handlers use.                         *)

Str(s)  == [t |-> "string",  v |-> s]
Bool(s) == [t |-> "boolean", v |-> s]
Num(s)  == [t |-> "number",  v |-> s]

\* luaL_checkstring: strings and numbers pass, anything else raises
luaL_checkstring(x) == x.t \in {"string", "number"}

\* the values a handler returns: the top n of what it pushed
lua_return(pushed, n) == SubSeq(pushed, Len(pushed) - n + 1, Len(pushed))

Returned(pushed, n) == [vals |-> lua_return(pushed, n), err |-> "none"]
Raised(msg)         == [vals |-> <<>>, err |-> msg]
Fault               == [vals |-> <<>>, err |-> "SIGSEGV"]

SeqsUpTo(S, n) == UNION {[1..k -> S] : k \in 0..n}

----------------------------------------------------------------------------
(* Flag tables.                                                             *)

SSL_VERIFY_NONE                 == {}
SSL_VERIFY_PEER                 == {0}
SSL_VERIFY_FAIL_IF_NO_PEER_CERT == {1}
SSL_VERIFY_CLIENT_ONCE          == {2}

SSL_SESS_CACHE_OFF                == {}
SSL_SESS_CACHE_CLIENT             == {0}
SSL_SESS_CACHE_SERVER             == {1}
SSL_SESS_CACHE_BOTH               == {0, 1}
SSL_SESS_CACHE_NO_AUTO_CLEAR      == {7}
SSL_SESS_CACHE_NO_INTERNAL_LOOKUP == {8}
SSL_SESS_CACHE_NO_INTERNAL_STORE  == {9}
SSL_SESS_CACHE_NO_INTERNAL        == {8, 9}

\* options.h: the name -> code table set_option_flag walks
ssl_options ==
  << [name |-> "no_sslv2", code |-> {24}],
     [name |-> "no_sslv3", code |-> {25}] >>

\* set_verify_flag with the unknown name accepted
set_verify_flag_lenient(str, flag) ==
  IF str = "none" THEN [ok |-> TRUE, flag |-> flag \cup SSL_VERIFY_NONE]
  ELSE IF str = "peer" THEN [ok |-> TRUE, flag |-> flag \cup SSL_VERIFY_PEER]
  ELSE IF str = "client_once"
    THEN [ok |-> TRUE, flag |-> flag \cup SSL_VERIFY_CLIENT_ONCE]
  ELSE IF str = "fail_if_no_peer_cert"
    THEN [ok |-> TRUE, flag |-> flag \cup SSL_VERIFY_FAIL_IF_NO_PEER_CERT]
  ELSE [ok |-> TRUE, flag |-> flag]

set_verify_flag(str, flag) ==
  IF str = "none" THEN [ok |-> TRUE, flag |-> flag \cup SSL_VERIFY_NONE]
  ELSE IF str = "peer" THEN [ok |-> TRUE, flag |-> flag \cup SSL_VERIFY_PEER]
  ELSE IF str = "client_once"
    THEN [ok |-> TRUE, flag |-> flag \cup SSL_VERIFY_CLIENT_ONCE]
  ELSE IF str = "fail_if_no_peer_cert"
    THEN [ok |-> TRUE, flag |-> flag \cup SSL_VERIFY_FAIL_IF_NO_PEER_CERT]
  ELSE [ok |-> FALSE, flag |-> flag]

RECURSIVE option_scan_assign(_, _, _)
option_scan_assign(opt, flag, p) ==
  IF p > Len(ssl_options) THEN [ok |-> FALSE, flag |-> flag]
  ELSE IF opt = ssl_options[p].name
    THEN [ok |-> TRUE, flag |-> ssl_options[p].code]
  ELSE option_scan_assign(opt, flag, p + 1)

\* set_option_flag with "=" where the code has "|="
set_option_flag_assign(opt, flag) == option_scan_assign(opt, flag, 1)

\* the for loop of set_option_flag, p walking the table
RECURSIVE option_scan(_, _, _)
option_scan(opt, flag, p) ==
  IF p > Len(ssl_options) THEN [ok |-> FALSE, flag |-> flag]
  ELSE IF opt = ssl_options[p].name
    THEN [ok |-> TRUE, flag |-> flag \cup ssl_options[p].code]
  ELSE option_scan(opt, flag, p + 1)

set_option_flag(opt, flag) == option_scan(opt, flag, 1)

\* one turn of set_session_cache_mode's switch
session_cache_flag(x, mode) ==
  IF x.t = "boolean"
  THEN [ok |-> TRUE,
        mode |-> IF x.v = "true" THEN mode \cup SSL_SESS_CACHE_BOTH
                 ELSE mode \cup SSL_SESS_CACHE_OFF]
  ELSE IF x.t = "string"
  THEN IF x.v = "off" THEN [ok |-> TRUE, mode |-> mode \cup SSL_SESS_CACHE_OFF]
       ELSE IF x.v = "client"
         THEN [ok |-> TRUE, mode |-> mode \cup SSL_SESS_CACHE_CLIENT]
       ELSE IF x.v = "server"
         THEN [ok |-> TRUE, mode |-> mode \cup SSL_SESS_CACHE_SERVER]
       ELSE IF x.v = "both"
         THEN [ok |-> TRUE, mode |-> mode \cup SSL_SESS_CACHE_BOTH]
       ELSE IF x.v = "no_auto_clear"
         THEN [ok |-> TRUE, mode |-> mode \cup SSL_SESS_CACHE_NO_AUTO_CLEAR]
       ELSE IF x.v = "no_internal_lookup"
         THEN [ok |-> TRUE, mode |-> mode \cup SSL_SESS_CACHE_NO_INTERNAL_LOOKUP]
       ELSE IF x.v = "no_internal_store"
         THEN [ok |-> TRUE, mode |-> mode \cup SSL_SESS_CACHE_NO_INTERNAL_STORE]
       ELSE IF x.v = "no_internal"
         THEN [ok |-> TRUE, mode |-> mode \cup SSL_SESS_CACHE_NO_INTERNAL]
       ELSE [ok |-> FALSE, mode |-> mode]
  ELSE [ok |-> FALSE, mode |-> mode]

----------------------------------------------------------------------------
(* The loops of the three flag setters: status is "ok", "invalid" (a name   *)
(* the table does not know) or "raise" (a Lua error), at the first          *)
(* argument that stops the loop.                                            *)

RECURSIVE verify_loop(_, _, _)
verify_loop(args, i, flag) ==
  IF i > Len(args) THEN [status |-> "ok", flag |-> flag]
  ELSE IF ~luaL_checkstring(args[i]) THEN [status |-> "raise", flag |-> flag]
  ELSE LET r == set_verify_flag(args[i].v, flag)
       IN  IF r.ok THEN verify_loop(args, i + 1, r.flag)
           ELSE [status |-> "invalid", flag |-> flag]

RECURSIVE options_loop(_, _, _)
options_loop(args, i, flag) ==
  IF i > Len(args) THEN [status |-> "ok", flag |-> flag]
  ELSE IF ~luaL_checkstring(args[i]) THEN [status |-> "raise", flag |-> flag]
  ELSE LET r == set_option_flag(args[i].v, flag)
       IN  IF r.ok THEN options_loop(args, i + 1, r.flag)
           ELSE [status |-> "invalid", flag |-> flag]

RECURSIVE session_loop(_, _, _)
session_loop(args, i, mode) ==
  IF i > Len(args) THEN [status |-> "ok", flag |-> mode]
  ELSE LET r == session_cache_flag(args[i], mode)
       IN  IF r.ok THEN session_loop(args, i + 1, r.mode)
           ELSE [status |-> "raise", flag |-> mode]


----------------------------------------------------------------------------
(* State.                                                                   *)

\* no userdata yet (or the last one was collected)
NoUserdata ==
  [held |-> FALSE, meta |-> FALSE, context |-> "NULL", mode |-> "none"]

\* no SSL_CTX yet
NoSslCtx ==
  [alive |-> FALSE, frees |-> 0,
   verify_mode |-> {}, options |-> {}, session_cache_mode |-> {},
   passwd_cb |-> "NULL", passwd_ud |-> "NULL", cache_size |-> 0]

\* the session cache size a new SSL_CTX starts with
SSL_SESSION_CACHE_MAX_SIZE_DEFAULT == 20480

\* what SSL_CTX_new hands back: verification off, no options, server-side
\* session caching, no password hook, the default cache size
SSL_CTX_new ==
  [alive |-> TRUE, frees |-> 0,
   verify_mode |-> SSL_VERIFY_NONE, options |-> {},
   session_cache_mode |-> SSL_SESS_CACHE_SERVER,
   passwd_cb |-> "NULL", passwd_ud |-> "NULL",
   cache_size |-> SSL_SESSION_CACHE_MAX_SIZE_DEFAULT]

Longs == 0..MaxLong

Init ==
  /\ ud = NoUserdata
  /\ ssl = NoSslCtx
  /\ call = [op |-> "none"]
  /\ ret = Returned(<<>>, 0)
  /\ engArg = {}
  /\ hookLog = <<>>
  /\ crashed = FALSE

\* the script holds a context and the process is running
Callable == ~crashed /\ ud.held

\* ctx_getcontext: the pointer, whatever it is
ctx_getcontext == ud.context

\* An engine call on the pointer ctx_getcontext returned.  On a live SSL_CTX
\* the engine object becomes newssl and the handler returns okret.  On NULL
\* the engine dereferences it: the process dies, or it survives with the
\* engine object untouched.
EngineCall(newssl, okret) ==
  /\ engArg' = {ctx_getcontext}
  /\ hookLog' = <<>>
  /\ UNCHANGED ud
  /\ IF ctx_getcontext = "NULL"
     THEN /\ ssl' = ssl
          /\ \E c \in BOOLEAN :
               /\ crashed' = c
               /\ ret' = IF c THEN Fault ELSE okret
     ELSE /\ ssl' = newssl
          /\ crashed' = FALSE
          /\ ret' = okret

\* A handler that returns without reaching the engine.
NoEngine(r) ==
  /\ ret' = r
  /\ engArg' = {}
  /\ hookLog' = <<>>
  /\ UNCHANGED <<ud, ssl, crashed>>

----------------------------------------------------------------------------
(* Creation and destruction.                                                *)

\* str2method with one more protocol name
str2method_sslv2(method) ==
  IF method = "sslv3" THEN "SSLv3_method"
  ELSE IF method = "tlsv1" THEN "TLSv1_method"
  ELSE IF method = "sslv23" THEN "SSLv23_method"
  ELSE IF method = "sslv2" THEN "SSLv2_method"
  ELSE "NULL"

str2method(method) ==
  IF method = "sslv3" THEN "SSLv3_method"
  ELSE IF method = "tlsv1" THEN "TLSv1_method"
  ELSE IF method = "sslv23" THEN "SSLv23_method"
  ELSE "NULL"

\* create(L); engineOK says whether SSL_CTX_new can allocate
create(protocol, engineOK) ==
  /\ ~crashed
  /\ ~ud.held
  /\ call' = [op |-> "create", protocol |-> protocol, engineOK |-> engineOK]
  /\ engArg' = {}
  /\ hookLog' = <<>>
  /\ crashed' = FALSE
  /\ IF ~luaL_checkstring(protocol)
     THEN /\ ret' = Raised("bad argument #1 (string expected)")
          /\ UNCHANGED <<ud, ssl>>
     ELSE IF str2method(protocol.v) = "NULL"
     THEN /\ ret' = Returned(<<"nil", "invalid protocol">>, 2)
          /\ UNCHANGED <<ud, ssl>>
     ELSE IF ~engineOK
     THEN /\ ud' = [held |-> FALSE, meta |-> FALSE,
                    context |-> "NULL", mode |-> "uninitialized"]
          /\ ret' = Returned(<<"userdata", "nil", "error creating context">>, 2)
          /\ UNCHANGED ssl
     ELSE /\ ud' = [held |-> TRUE, meta |-> TRUE,
                    context |-> "ctx", mode |-> "MD_CTX_INVALID"]
          /\ ssl' = SSL_CTX_new
          /\ ret' = Returned(<<"userdata">>, 1)

\* SSL_CTX_free: releasing an SSL_CTX that was already released is a
\* double free, which may or may not kill the process
SSL_CTX_free ==
  /\ ssl' = [ssl EXCEPT !.alive = FALSE, !.frees = @ + 1]
  /\ IF ssl.alive THEN crashed' = FALSE ELSE crashed' \in BOOLEAN

\* meth_destroy that leaves the pointer in place
meth_destroy_keep ==
  /\ Callable
  /\ call' = [op |-> "destroy"]
  /\ ret' = Returned(<<>>, 0)
  /\ hookLog' = <<>>
  /\ IF ud.context # "NULL"
     THEN /\ SSL_CTX_free
          /\ engArg' = {ud.context}
          /\ UNCHANGED ud
     ELSE /\ engArg' = {}
          /\ UNCHANGED <<ud, ssl, crashed>>

\* meth_destroy(L), called by the script through the metatable's __gc
meth_destroy ==
  /\ Callable
  /\ call' = [op |-> "destroy"]
  /\ ret' = Returned(<<>>, 0)
  /\ hookLog' = <<>>
  /\ IF ud.context # "NULL"
     THEN /\ SSL_CTX_free
          /\ engArg' = {ud.context}
          /\ ud' = [ud EXCEPT !.context = "NULL"]
     ELSE /\ engArg' = {}
          /\ UNCHANGED <<ud, ssl, crashed>>

\* the collector finalizes the userdata the script has dropped: __gc is
\* meth_destroy, and the userdata is gone afterwards
lua_gc ==
  /\ Callable
  /\ call' = [op |-> "gc"]
  /\ ret' = Returned(<<>>, 0)
  /\ hookLog' = <<>>
  /\ ud' = NoUserdata
  /\ IF ud.context # "NULL"
     THEN /\ SSL_CTX_free
          /\ engArg' = {ud.context}
     ELSE /\ engArg' = {}
          /\ UNCHANGED <<ssl, crashed>>

----------------------------------------------------------------------------
(* Statistics, raw pointer, mode, session cache size.                       *)

\* ctx_stats(L): twelve SSL_CTX_sess_* reads on the pointer
ctx_stats ==
  /\ Callable
  /\ call' = [op |-> "stats"]
  /\ EngineCall(ssl, Returned(<<"table">>, 1))

\* raw_ctx(L): the pointer as a light userdata, no engine call
raw_ctx ==
  /\ Callable
  /\ call' = [op |-> "rawcontext"]
  /\ NoEngine(Returned(<<ud.context>>, 1))

\* set_mode(L)
set_mode(x) ==
  /\ Callable
  /\ call' = [op |-> "setmode", arg |-> x]
  /\ engArg' = {}
  /\ hookLog' = <<>>
  /\ UNCHANGED <<ssl, crashed>>
  /\ IF ~luaL_checkstring(x)
     THEN /\ ret' = Raised("bad argument #2 (string expected)")
          /\ UNCHANGED ud
     ELSE IF x.v = "server"
     THEN /\ ud' = [ud EXCEPT !.mode = "MD_CTX_SERVER"]
          /\ ret' = Returned(<<"true">>, 1)
     ELSE IF x.v = "client"
     THEN /\ ud' = [ud EXCEPT !.mode = "MD_CTX_CLIENT"]
          /\ ret' = Returned(<<"true">>, 1)
     ELSE /\ UNCHANGED ud
          /\ ret' = Returned(<<"false", "invalid mode">>, 1)

\* set_cache_size(L)
set_cache_size(n) ==
  /\ Callable
  /\ call' = [op |-> "setcachesize", arg |-> n]
  /\ EngineCall([ssl EXCEPT !.cache_size = n], Returned(<<"true">>, 1))

\* get_cache_size(L)
get_cache_size ==
  /\ Callable
  /\ call' = [op |-> "getcachesize"]
  /\ EngineCall(ssl, Returned(<<ssl.cache_size>>, 1))

----------------------------------------------------------------------------
(* The three flag setters.  The call record keeps whether the token list    *)
(* was empty and the position of its first token outside the domain's       *)
(* names (0 when every token is one of them).                               *)

VerifyNames == {"none", "peer", "client_once", "fail_if_no_peer_cert"}
OptionNames == {ssl_options[i].name : i \in 1..Len(ssl_options)}
SessionNames == {"off", "client", "server", "both", "no_auto_clear",
                 "no_internal_lookup", "no_internal_store", "no_internal"}

KnownVerify(x)  == x.t = "string" /\ x.v \in VerifyNames
KnownOption(x)  == x.t = "string" /\ x.v \in OptionNames
KnownSession(x) == x.t = "boolean" \/ (x.t = "string" /\ x.v \in SessionNames)

\* the least position in B, 0 when there is none
FirstBad(B) == IF B = {} THEN 0 ELSE CHOOSE i \in B : \A j \in B : i <= j

\* set_verify(L)
set_verify(args) ==
  /\ Callable
  /\ call' = [op |-> "setverify", empty |-> args = <<>>,
              bad |-> FirstBad({i \in 1..Len(args) :
                                 ~KnownVerify(args[i])})]
  /\ LET r == verify_loop(args, 1, {})
     IN  IF Len(args) > 0
         THEN IF r.status = "raise"
              THEN NoEngine(Raised("bad argument (string expected)"))
              ELSE IF r.status = "invalid"
              THEN NoEngine(Returned(<<"false", "invalid verify option">>, 2))
              ELSE EngineCall([ssl EXCEPT !.verify_mode = r.flag],
                              Returned(<<"true">>, 1))
         ELSE NoEngine(Returned(<<"true">>, 1))

\* SSL_CTX_set_options(ctx, flag): the engine ORs flag into its mask
SSL_CTX_set_options(options, flag) == options \cup flag

\* the option mask set_options(L) leaves in an engine whose mask is options
set_options_mask(options, args) ==
  LET r == options_loop(args, 1, {})
  IN  IF Len(args) > 0 /\ r.status = "ok"
      THEN SSL_CTX_set_options(options, r.flag)
      ELSE options

\* set_options(L)
set_options(args) ==
  /\ Callable
  /\ call' = [op |-> "setoptions", empty |-> args = <<>>,
              bad |-> FirstBad({i \in 1..Len(args) :
                                 ~KnownOption(args[i])})]
  /\ LET r == options_loop(args, 1, {})
     IN  IF Len(args) > 0
         THEN IF r.status = "raise"
              THEN NoEngine(Raised("bad argument (string expected)"))
              ELSE IF r.status = "invalid"
              THEN NoEngine(Returned(<<"false", "invalid option">>, 2))
              ELSE EngineCall([ssl EXCEPT !.options = set_options_mask(@, args)],
                              Returned(<<"true">>, 1))
         ELSE NoEngine(Returned(<<"true">>, 1))

\* set_session_cache_mode(L)
set_session_cache_mode(args) ==
  /\ Callable
  /\ call' = [op |-> "setsessioncachemode", empty |-> args = <<>>,
              bad |-> FirstBad({i \in 1..Len(args) :
                                 ~KnownSession(args[i])})]
  /\ LET r == session_loop(args, 1, {})
     IN  IF r.status = "raise"
         THEN NoEngine(Raised("unknown session cache mode"))
         ELSE EngineCall([ssl EXCEPT !.session_cache_mode = r.flag],
                         Returned(<<"true">>, 1))

----------------------------------------------------------------------------
(* Loading the private key.  Strings here are sequences of characters.     *)

Nil       == [t |-> "nil",      v |-> <<>>]
Table     == [t |-> "table",    v |-> <<>>]
Func(b)   == [t |-> "function", v |-> <<b>>]

\* the passphrase the encrypted key file was written with
KeyPass == <<"a", "b">>

\* lua_type(L, idx) on the stack of the running call
lua_type(stack, idx) == IF idx <= Len(stack) THEN stack[idx].t ELSE "none"

\* lua_call(L, 0, 1) on a password function: what the function hands back,
\* or that it raises
lua_call(f) ==
  IF f.v = <<"right">> THEN [raise |-> FALSE, val |-> Str(KeyPass)]
  ELSE IF f.v = <<"long">>
    THEN [raise |-> FALSE, val |-> Str(<<"a", "b", "c", "d">>)]
  ELSE IF f.v = <<"number">> THEN [raise |-> FALSE, val |-> Num(<<"7">>)]
  ELSE IF f.v = <<"nil">> THEN [raise |-> FALSE, val |-> Nil]
  ELSE [raise |-> TRUE, val |-> Nil]

\* lua_tostring: the characters of a string or a number, NULL otherwise
lua_tostring(x) ==
  IF x.t \in {"string", "number"} THEN [null |-> FALSE, s |-> x.v]
  ELSE [null |-> TRUE, s |-> <<>>]

\* a C string ends at its first NUL
RECURSIVE strlen(_)
strlen(s) ==
  IF s = <<>> \/ Head(s) = "NUL" THEN 0 ELSE 1 + strlen(Tail(s))

\* strncpy(buf, s, size); buf[size-1] = '\0': what buf then holds
strncpy(s, size) ==
  LET n == IF strlen(s) < size - 1 THEN strlen(s) ELSE size - 1
  IN  SubSeq(s, 1, n)

\* passwd_cb(buf, size, flag, udata) on the Lua stack of the load_key call
passwd_cb(stack, size) ==
  LET copy(st, called) ==
        LET top == lua_tostring(st[Len(st)])
        IN  IF top.null
            THEN [kind |-> "ub", stack |-> st, out |-> <<>>, n |-> 0,
                  called |-> called]
            ELSE [kind |-> "ret", stack |-> st,
                  out |-> strncpy(top.s, size),
                  n |-> strlen(strncpy(top.s, size)), called |-> called]
  IN  IF lua_type(stack, 3) = "function"
      THEN LET r == lua_call(stack[3])
           IN  IF r.raise
               THEN [kind |-> "raise", stack |-> stack, out |-> <<>>,
                     n |-> 0, called |-> TRUE]
               ELSE IF r.val.t # "string"
               THEN [kind |-> "ret", stack |-> Append(stack, r.val),
                     out |-> <<>>, n |-> 0, called |-> TRUE]
               ELSE copy(Append(stack, r.val), TRUE)
      ELSE IF lua_type(stack, 3) = "string"
      THEN copy(stack, FALSE)
      ELSE [kind |-> "ret", stack |-> stack, out |-> <<>>, n |-> 0,
            called |-> FALSE]

\* the engine reading an encrypted key: k decryption attempts, each asking
\* the installed hook for the passphrase
RECURSIVE hook_calls(_, _, _, _)
hook_calls(stack, size, k, log) ==
  IF k = 0 THEN [kind |-> "ret", log |-> log]
  ELSE LET r == passwd_cb(stack, size)
       IN  IF r.kind = "ret"
           THEN hook_calls(r.stack, size, k - 1,
                  Append(log, [size |-> size, out |-> r.out, n |-> r.n,
                               called |-> r.called]))
           ELSE [kind |-> r.kind, log |-> log]

KeyLoaded     == Returned(<<"true">>, 1)
KeyLoadFailed == Returned(<<"false", "error loading private key">>, 2)

\* load_key(L).  args are the arguments after the context; file is what the
\* engine finds at the path, k and size how it drives the hook
load_key(args, file, k, size) ==
  /\ Callable
  /\ call' = [op |-> "loadkey", args |-> args, file |-> file, size |-> size]
  /\ UNCHANGED ud
  /\ LET stack == <<[t |-> "userdata", v |-> <<>>]>> \o args
         t3 == lua_type(stack, 3)
         hooked == [ssl EXCEPT !.passwd_cb = "passwd_cb", !.passwd_ud = "L"]
         cleared == [ssl EXCEPT !.passwd_cb = "NULL", !.passwd_ud = "NULL"]
         run == hook_calls(stack, size, k, <<>>)
         last == run.log[Len(run.log)]
     IN  IF lua_type(stack, 2) \notin {"string", "number"}
         THEN /\ ret' = Raised("bad argument #2 (string expected)")
              /\ engArg' = {}
              /\ hookLog' = <<>>
              /\ UNCHANGED <<ssl, crashed>>
         ELSE IF t3 \notin {"string", "function", "nil"}
         THEN /\ ret' = Raised("invalid callback value")
              /\ engArg' = {}
              /\ hookLog' = <<>>
              /\ UNCHANGED <<ssl, crashed>>
         ELSE IF ctx_getcontext = "NULL"
         THEN /\ engArg' = {"NULL"}
              /\ hookLog' = <<>>
              /\ UNCHANGED ssl
              /\ \E c \in BOOLEAN :
                   /\ crashed' = c
                   /\ ret' = IF c THEN Fault ELSE KeyLoadFailed
         ELSE /\ engArg' = {ctx_getcontext}
              /\ IF file = "plain"
                 THEN /\ ssl' = cleared
                      /\ ret' = KeyLoaded
                      /\ hookLog' = <<>>
                      /\ crashed' = FALSE
                 ELSE IF file = "missing"
                 THEN /\ ssl' = cleared
                      /\ ret' = KeyLoadFailed
                      /\ hookLog' = <<>>
                      /\ crashed' = FALSE
                 ELSE IF t3 = "nil"
                 THEN \* no hook: the engine prompts on its own
                      /\ ssl' = cleared
                      /\ ret' \in {KeyLoaded, KeyLoadFailed}
                      /\ hookLog' = <<>>
                      /\ crashed' = FALSE
                 ELSE /\ hookLog' = run.log
                      /\ IF run.kind = "raise"
                         THEN \* the error unwinds through load_key
                              /\ ssl' = hooked
                              /\ ret' = Raised("error in password function")
                              /\ crashed' = FALSE
                         ELSE IF run.kind = "ub"
                         THEN \* strncpy from NULL
                              \E c \in BOOLEAN :
                                /\ crashed' = c
                                /\ ssl' = IF c THEN hooked ELSE cleared
                                /\ ret' = IF c THEN Fault ELSE KeyLoadFailed
                         ELSE /\ ssl' = cleared
                              /\ crashed' = FALSE
                              /\ ret' = IF last.n > 0 /\ last.out = KeyPass
                                        THEN KeyLoaded ELSE KeyLoadFailed

----------------------------------------------------------------------------
(* Inputs.                                                                  *)

Protocols == {Str("sslv3"), Str("tlsv1"), Str("sslv23"), Str("sslv2"),
              Str("bogus"), Bool("true")}

Modes == {Str("server"), Str("client"), Str("bogus"), Num("1"), Bool("true")}

VerifyTokens == {Str(n) : n \in VerifyNames} \cup {Str("bogus"), Bool("true")}
OptionTokens == {Str(n) : n \in OptionNames} \cup {Str("bogus")}
SessionTokens == {Bool("true"), Bool("false"), Str("client"), Str("server"),
                  Str("no_internal"), Str("bogus"), Num("1")}

FileName == Str(<<"k", "e", "y">>)
Passwords == {Nil, Str(KeyPass), Str(<<"a", "b", "c", "d">>), Str(<<"x">>),
              Func("right"), Func("long"), Func("number"), Func("nil"),
              Func("raise"), Num(<<"7">>), Table}
Extras == {Str(<<"x">>), Num(<<"7">>), Nil}
KeyArgs == {<<>>, <<FileName>>}
             \cup {<<FileName, p>> : p \in Passwords}
             \cup {<<FileName, p, e>> : p \in Passwords, e \in Extras}
Files == {"plain", "encrypted", "missing"}

----------------------------------------------------------------------------
(* Specifications.                                                          *)

Next ==
  \/ \E p \in Protocols, ok \in BOOLEAN : create(p, ok)
  \/ meth_destroy
  \/ lua_gc
  \/ ctx_stats
  \/ raw_ctx
  \/ \E x \in Modes : set_mode(x)
  \/ \E n \in Longs : set_cache_size(n)
  \/ get_cache_size
  \/ \E a \in SeqsUpTo(VerifyTokens, MaxTokens) : set_verify(a)
  \/ \E a \in SeqsUpTo(OptionTokens, MaxTokens) : set_options(a)
  \/ \E a \in SeqsUpTo(SessionTokens, MaxTokens) : set_session_cache_mode(a)
  \/ \E a \in KeyArgs, f \in Files, k \in 1..MaxCbCalls, sz \in 1..MaxBuf :
       load_key(a, f, k, sz)

Spec == Init /\ [][Next]_vars

\* creation, destruction and the calls that do not take flag lists
NextLife ==
  \/ \E p \in Protocols, ok \in BOOLEAN : create(p, ok)
  \/ meth_destroy
  \/ lua_gc
  \/ ctx_stats
  \/ raw_ctx
  \/ \E x \in Modes : set_mode(x)
  \/ \E n \in Longs : set_cache_size(n)
  \/ get_cache_size

SpecLife == Init /\ [][NextLife]_vars

\* a context right after create("sslv23")
InitCreated ==
  /\ ud = [held |-> TRUE, meta |-> TRUE, context |-> "ctx",
           mode |-> "MD_CTX_INVALID"]
  /\ ssl = SSL_CTX_new
  /\ call = [op |-> "create", protocol |-> Str("sslv23"), engineOK |-> TRUE]
  /\ ret = Returned(<<"userdata">>, 1)
  /\ engArg = {}
  /\ hookLog = <<>>
  /\ crashed = FALSE

\* the flag setters on a created context
NextFlags ==
  \/ \E a \in SeqsUpTo(VerifyTokens, MaxTokens) : set_verify(a)
  \/ \E a \in SeqsUpTo(OptionTokens, MaxTokens) : set_options(a)
  \/ \E a \in SeqsUpTo(SessionTokens, MaxTokens) : set_session_cache_mode(a)

SpecFlags == InitCreated /\ [][NextFlags]_vars

\* key loading on a created context
NextKey ==
  \/ \E a \in KeyArgs, f \in Files, k \in 1..MaxCbCalls, sz \in 1..MaxBuf :
       load_key(a, f, k, sz)

SpecKey == InitCreated /\ [][NextKey]_vars

----------------------------------------------------------------------------
(* Properties.                                                              *)

FlagOps == {"setverify", "setoptions", "setsessioncachemode"}
ProtocolNames == {"sslv3", "tlsv1", "sslv23"}

\* the caller sees a failure: a Lua error, or a first result of false or nil
Failed(r) ==
  \/ r.err # "none"
  \/ Len(r.vals) > 0 /\ r.vals[1] \in {"false", "nil"}

\* the code of an option name, looked up in the table
OptionCode(name) ==
  LET i == CHOOSE j \in 1..Len(ssl_options) : ssl_options[j].name = name
  IN  ssl_options[i].code

\* out is what fits of s in a buffer of size characters
IsTruncation(out, s, size) ==
  /\ Len(out) <= Len(s)
  /\ out = SubSeq(s, 1, Len(out))
  /\ Len(out) <= size
  /\ Len(s) < size => out = s

\* C1: a setverify, setoptions or setsessioncachemode call whose token list
\* holds a token outside the domain's names, at any position, fails and
\* leaves the engine's verify mode, option mask and session cache mode as
\* they were before the call.
C1_FlagAggregationAtomic ==
  [][(call'.op \in FlagOps /\ call'.bad # 0)
       => (ssl' = ssl /\ Failed(ret') /\ engArg' = {})]_vars

\* C1 case: setverify fails on a bad token that follows a good one, on a
\* context whose verify mode had been set to peer
C1_Witness ==
  /\ call.op = "setverify"
  /\ call.bad = 2
  /\ ret = Returned(<<"false", "invalid verify option">>, 2)
  /\ ssl.verify_mode = SSL_VERIFY_PEER

\* C2: a flag setter called with no tokens succeeds and leaves the engine's
\* masks unchanged; it never resets a mask that was set.
C2_EmptyTokensNoOp ==
  [][(call'.op \in FlagOps /\ call'.empty)
       => (ssl' = ssl /\ ret' = Returned(<<"true">>, 1))]_vars

\* C3: SSL_CTX_free runs at most once on an SSL_CTX; after a destroy (by the
\* script or by the collector) the userdata's pointer is NULL and the call
\* has returned normally; a destroy that finds the pointer NULL changes
\* nothing and does not reach the engine.
C3_DestroyIdempotent ==
  /\ [](/\ ssl.frees <= 1
        /\ call.op \in {"destroy", "gc"}
             => (ud.context = "NULL" /\ ret = Returned(<<>>, 0) /\ ~crashed))
  /\ [][(call'.op \in {"destroy", "gc"} /\ ud.context = "NULL")
          => (ssl' = ssl /\ engArg' = {} /\ ud'.context = "NULL")]_vars

\* C3 case: a destroy on a context that was destroyed before
C3_Witness ==
  /\ call.op = "destroy"
  /\ engArg = {}
  /\ ssl.frees = 1
  /\ ud.held

\* C4: no call passes a NULL (released) SSL_CTX pointer to the engine.
C4_NoEngineCallOnDeadHandle == "NULL" \notin engArg

\* C5: whenever control is back with the caller, the engine's password hook
\* and its user data are cleared.
C5_HookClearedOnReturn ==
  ~crashed => (ssl.passwd_cb = "NULL" /\ ssl.passwd_ud = "NULL")

\* C6: loadkey with the password absent or nil installs no hook and attempts
\* the load, which succeeds on an unencrypted key; a string is copied by the
\* hook, a function is called by the hook; any other kind raises "invalid
\* callback value" before any engine call.
C6_PasswordStrategy ==
  (call.op = "loadkey" /\ ~crashed /\ Len(call.args) >= 1) =>
    LET pw == IF Len(call.args) >= 2 THEN call.args[2].t ELSE "absent"
    IN  /\ pw \in {"absent", "nil"} =>
             /\ engArg # {}
             /\ hookLog = <<>>
             /\ call.file = "plain" => ret = KeyLoaded
        /\ pw = "string" =>
             \A i \in 1..Len(hookLog) : ~hookLog[i].called
        /\ pw = "function" =>
             \A i \in 1..Len(hookLog) : hookLog[i].called
        /\ pw \notin {"absent", "nil", "string", "function"} =>
             /\ ret = Raised("invalid callback value")
             /\ engArg = {}

\* C7: setoptions(a, b) and setoptions(a) followed by setoptions(b) leave the
\* same option mask, the earlier mask with the codes of a and b ORed in; no
\* setoptions call, successful or failed, clears an option bit.
C7_OptionsCumulative ==
  /\ [](\A a, b \in OptionNames :
          LET o == ssl.options
          IN  /\ set_options_mask(o, <<Str(a), Str(b)>>)
                   = set_options_mask(set_options_mask(o, <<Str(a)>>),
                                      <<Str(b)>>)
              /\ set_options_mask(o, <<Str(a), Str(b)>>)
                   = o \cup OptionCode(a) \cup OptionCode(b))
  /\ [][ssl.options \subseteq ssl'.options]_vars

\* C7 case: a setoptions call with tokens has succeeded and both option
\* codes are set
C7_Witness ==
  /\ call.op = "setoptions"
  /\ ~call.empty
  /\ call.bad = 0
  /\ ret = Returned(<<"true">>, 1)
  /\ ssl.options = OptionCode("no_sslv2") \cup OptionCode("no_sslv3")

\* C8: setmode("server") and setmode("client") succeed and set the mode;
\* any other value yields a failure result (false first) and leaves the mode.
C8_SetModeResult ==
  call.op = "setmode" =>
    IF call.arg = Str("server")
    THEN ret = Returned(<<"true">>, 1) /\ ud.mode = "MD_CTX_SERVER"
    ELSE IF call.arg = Str("client")
    THEN ret = Returned(<<"true">>, 1) /\ ud.mode = "MD_CTX_CLIENT"
    ELSE Failed(ret)

\* C9: create succeeds for "sslv3", "tlsv1" and "sslv23" when the engine can
\* allocate, with a live SSL_CTX and the mode unset; any other string fails
\* with "invalid protocol"; an engine that cannot allocate fails the call;
\* a failed create allocates no SSL_CTX and hands the script no context.
C9_Create ==
  /\ [](call.op = "create" =>
          IF call.protocol.t = "string" /\ call.protocol.v \in ProtocolNames
             /\ call.engineOK
          THEN /\ ud.held /\ ud.meta
               /\ ud.context # "NULL" /\ ssl.alive
               /\ ud.mode = "MD_CTX_INVALID"
               /\ ret = Returned(<<"userdata">>, 1)
          ELSE /\ ~ud.held /\ ~ud.meta
               /\ Failed(ret)
               /\ (call.protocol.t = "string"
                   /\ call.protocol.v \notin ProtocolNames)
                    => ret = Returned(<<"nil", "invalid protocol">>, 2))
  /\ [][(call'.op = "create" /\ Failed(ret')) => ssl' = ssl]_vars

\* C9 case: a recognized protocol, and the engine cannot allocate
C9_Witness ==
  /\ call.op = "create"
  /\ call.protocol = Str("tlsv1")
  /\ ~call.engineOK
  /\ ret = Returned(<<"nil", "error creating context">>, 2)
  /\ ~ud.held

\* C10: every hook invocation of a loadkey call copies the password argument
\* (a string) or the function's result (a function), truncated to the buffer,
\* and returns the copied length, at most the buffer size; a function is
\* called on each invocation and a non-string result makes the hook return 0,
\* so that the load fails with "error loading private key".
C10_HookResult ==
  (call.op = "loadkey" /\ Len(call.args) >= 2) =>
    LET pw == call.args[2]
    IN  /\ \A i \in 1..Len(hookLog) :
             LET e == hookLog[i]
             IN  /\ e.n = Len(e.out)
                 /\ e.n <= e.size
                 /\ pw.t = "string" => IsTruncation(e.out, pw.v, e.size)
                 /\ pw.t = "function" =>
                      /\ e.called
                      /\ IF lua_call(pw).val.t = "string"
                         THEN IsTruncation(e.out, lua_call(pw).val.v, e.size)
                         ELSE e.n = 0
        /\ (pw.t = "function" /\ ~lua_call(pw).raise
            /\ lua_call(pw).val.t # "string"
            /\ call.file = "encrypted" /\ ~crashed)
             => ret = KeyLoadFailed

====
